---- MODULE Spec2Model ----
(***************************************************************************)
(* Model of server/scripts/run-migration.py: connect, read the SQL file,   *)
(* split it on the token GO, run every batch with commit / rollback, close *)
(* the connection and print the final banner or the fallback instructions. *)
(* A script is a sequence of one-character strings.                        *)
(***************************************************************************)
EXTENDS Integers, Sequences, FiniteSets

\* Longest script text considered.
MaxLen == 7

\* Characters of the script texts considered: the two letters of the token,
\* a dash (two of them open a SQL comment) and the line break.
Alphabet == {"G", "O", "-", "\n"}

\* The literal 'GO' of sql_content.split('GO').
Delimiter == <<"G", "O">>

\* Characters removed by str.strip().
Whitespace == {" ", "\t", "\n", "\r"}

\* The literal '--' of batch.startswith('--').
CommentPrefix == <<"-", "-">>

Scripts == UNION {[1..n -> Alphabet] : n \in 0..MaxLen}

VARIABLES
  script,        \* content of SQL_FILE
  pc,            \* position of the program
  connOpen,      \* conn has been opened and not closed
  cursorOpen,    \* cursor has been opened and not closed
  fragments,     \* the value of sql_content.split('GO') (empty before it)
  batches,       \* the list batches (empty before the split)
  announced,     \* N of "Executing N SQL batches...", -1 before it is printed
  i,             \* loop variable i of enumerate(batches, 1), 0 before the loop
  exc,           \* step whose exception is being handled, "none" otherwise
  submitted,     \* indices passed to cursor.execute, in call order
  sent,          \* batch texts passed to cursor.execute, in call order
  commitCalls,   \* indices for which conn.commit() was called
  rollbackCalls, \* indices for which conn.rollback() was called
  rolledBack,    \* indices for which conn.rollback() returned
  raised,        \* [index, step] of every exception raised in the loop
  results,       \* per-batch outcome lines printed, in print order
  completedPrinted, \* the MIGRATION COMPLETED banner was printed
  fallbackPrinted,  \* the fallback instructions were printed
  topError,      \* step whose exception left the loop or the program
  pending,       \* indices with uncommitted work in the open transaction
  durable        \* indices whose work has been committed

vars == <<script, pc, connOpen, cursorOpen, fragments, batches, announced,
          i, exc, submitted, sent, commitCalls, rollbackCalls, rolledBack,
          raised, results, completedPrinted, fallbackPrinted, topError,
          pending, durable>>

----------------------------------------------------------------------------
\* Pure functions on texts.

StartsWith(s, p) ==
  /\ Len(s) >= Len(p)
  /\ SubSeq(s, 1, Len(p)) = p

\* str.split(sep): the pieces between the non-overlapping occurrences of
\* sep, scanned from the left; always at least one piece.
RECURSIVE SplitAcc(_, _, _)
SplitAcc(rest, cur, sep) ==
  IF rest = <<>> THEN <<cur>>
  ELSE IF StartsWith(rest, sep)
       THEN <<cur>> \o
            SplitAcc(SubSeq(rest, Len(sep) + 1, Len(rest)), <<>>, sep)
       ELSE SplitAcc(Tail(rest), Append(cur, Head(rest)), sep)

Split(s, sep) == SplitAcc(s, <<>>, sep)

RECURSIVE LStrip(_)
LStrip(s) ==
  IF s # <<>> /\ Head(s) \in Whitespace THEN LStrip(Tail(s)) ELSE s

RECURSIVE RStrip(_)
RStrip(s) ==
  IF s # <<>> /\ s[Len(s)] \in Whitespace
  THEN RStrip(SubSeq(s, 1, Len(s) - 1))
  ELSE s

\* str.strip()
Strip(s) == RStrip(LStrip(s))

RECURSIVE MapStrip(_)
MapStrip(fs) ==
  IF fs = <<>> THEN <<>> ELSE <<Strip(Head(fs))>> \o MapStrip(Tail(fs))

NonEmptyStripped(b) == Strip(b) # <<>>

\* Variant of Batches: [b.strip() for b in sql_content.split('GO')], the
\* empty fragments kept.
BatchesNoFilter(s) == MapStrip(Split(s, Delimiter))

\* Variant of Batches: [b for b in sql_content.split('GO') if b.strip()],
\* the fragments kept untrimmed.
BatchesNoStrip(s) == SelectSeq(Split(s, Delimiter), NonEmptyStripped)

\* batches = [b.strip() for b in sql_content.split('GO') if b.strip()]
Batches(s) == MapStrip(SelectSeq(Split(s, Delimiter), NonEmptyStripped))

\* if not batch or batch.startswith('--'): continue
SkipBatch(b) == b = <<>> \/ StartsWith(b, CommentPrefix)

----------------------------------------------------------------------------
\* Variant of ExceptTarget: an exception of the drain is swallowed.
ExceptTargetDrainIgnored(step) ==
  IF step = "drain" THEN "commit" ELSE "handler"

\* Variant of ExceptTarget: an exception of the commit is not handled.
ExceptTargetCommitIgnored(step) ==
  IF step = "commit" THEN "loop" ELSE "handler"

\* The per-batch try/except: control after a step of the try body raises
\* (every exception is caught by "except Exception as e").
ExceptTarget(step) == "handler"

Succeeded(k) == [index |-> k, status |-> "Succeeded", msg |-> "none"]

Failed(k, m) == [index |-> k, status |-> "Failed", msg |-> m]

Init ==
  /\ script \in Scripts
  /\ pc = "import"
  /\ connOpen = FALSE
  /\ cursorOpen = FALSE
  /\ fragments = <<>>
  /\ batches = <<>>
  /\ announced = -1
  /\ i = 0
  /\ exc = "none"
  /\ submitted = <<>>
  /\ sent = <<>>
  /\ commitCalls = <<>>
  /\ rollbackCalls = <<>>
  /\ rolledBack = <<>>
  /\ raised = <<>>
  /\ results = <<>>
  /\ completedPrinted = FALSE
  /\ fallbackPrinted = FALSE
  /\ topError = "none"
  /\ pending = {}
  /\ durable = {}

\* import pyodbc, before the try statement: an ImportError is not caught.
Import ==
  /\ pc = "import"
  /\ \E ok \in BOOLEAN :
       IF ok
       THEN /\ pc' = "connect"
            /\ UNCHANGED topError
       ELSE /\ pc' = "crashed"
            /\ topError' = "import"
  /\ UNCHANGED <<script, connOpen, cursorOpen, fragments, batches, announced,
                 i, exc, submitted, sent, commitCalls, rollbackCalls,
                 rolledBack, raised, results, completedPrinted,
                 fallbackPrinted, pending, durable>>

\* conn = pyodbc.connect(conn_str); cursor = conn.cursor()
Connect ==
  /\ pc = "connect"
  /\ \E ok \in BOOLEAN :
       IF ok
       THEN /\ connOpen' = TRUE
            /\ cursorOpen' = TRUE
            /\ pc' = "read"
            /\ UNCHANGED topError
       ELSE /\ UNCHANGED <<connOpen, cursorOpen>>
            /\ pc' = "fallback"
            /\ topError' = "connect"
  /\ UNCHANGED <<script, fragments, batches, announced, i, exc, submitted,
                 sent, commitCalls, rollbackCalls, rolledBack, raised,
                 results, completedPrinted, fallbackPrinted, pending,
                 durable>>

\* open / read of SQL_FILE, the split and the "Executing N SQL batches" line.
ReadAndSplit ==
  /\ pc = "read"
  /\ \E ok \in BOOLEAN :
       IF ok
       THEN /\ fragments' = Split(script, Delimiter)
            /\ batches' = Batches(script)
            /\ announced' = Len(Batches(script))
            /\ pc' = "loop"
            /\ UNCHANGED topError
       ELSE /\ UNCHANGED <<fragments, batches, announced>>
            /\ pc' = "fallback"
            /\ topError' = "read"
  /\ UNCHANGED <<script, connOpen, cursorOpen, i, exc, submitted, sent,
                 commitCalls, rollbackCalls, rolledBack, raised, results,
                 completedPrinted, fallbackPrinted, pending, durable>>

\* for i, batch in enumerate(batches, 1): the comment skip.
LoopSkip ==
  /\ pc = "loop"
  /\ i < Len(batches)
  /\ SkipBatch(batches[i + 1])
  /\ i' = i + 1
  /\ UNCHANGED <<script, pc, connOpen, cursorOpen, fragments, batches,
                 announced, exc, submitted, sent, commitCalls, rollbackCalls,
                 rolledBack, raised, results, completedPrinted,
                 fallbackPrinted, topError, pending, durable>>

\* The loop reaches a batch it runs: "[i/N] Executing batch..." and try.
LoopEnter ==
  /\ pc = "loop"
  /\ i < Len(batches)
  /\ ~SkipBatch(batches[i + 1])
  /\ i' = i + 1
  /\ pc' = "execute"
  /\ UNCHANGED <<script, connOpen, cursorOpen, fragments, batches, announced,
                 exc, submitted, sent, commitCalls, rollbackCalls, rolledBack,
                 raised, results, completedPrinted, fallbackPrinted, topError,
                 pending, durable>>

\* The loop is exhausted.
LoopExit ==
  /\ pc = "loop"
  /\ i >= Len(batches)
  /\ pc' = "close_cursor"
  /\ UNCHANGED <<script, connOpen, cursorOpen, fragments, batches, announced,
                 i, exc, submitted, sent, commitCalls, rollbackCalls,
                 rolledBack, raised, results, completedPrinted,
                 fallbackPrinted, topError, pending, durable>>

\* cursor.execute(batch): the statements run in the open transaction
\* (autocommit is off), also those that ran before a failing one.
Execute ==
  /\ pc = "execute"
  /\ submitted' = Append(submitted, i)
  /\ sent' = Append(sent, batches[i])
  /\ pending' = pending \cup {i}
  /\ \E ok \in BOOLEAN :
       IF ok
       THEN /\ pc' = "drain"
            /\ UNCHANGED <<exc, raised>>
       ELSE /\ pc' = ExceptTarget("execute")
            /\ exc' = "execute"
            /\ raised' = Append(raised, [index |-> i, step |-> "execute"])
  /\ UNCHANGED <<script, connOpen, cursorOpen, fragments, batches, announced,
                 i, commitCalls, rollbackCalls, rolledBack, results,
                 completedPrinted, fallbackPrinted, topError, durable>>

\* while cursor.nextset(): pass
Drain ==
  /\ pc = "drain"
  /\ \E ok \in BOOLEAN :
       IF ok
       THEN /\ pc' = "commit"
            /\ UNCHANGED <<exc, raised>>
       ELSE /\ pc' = ExceptTarget("drain")
            /\ exc' = IF ExceptTarget("drain") = "handler"
                      THEN "drain" ELSE exc
            /\ raised' = Append(raised, [index |-> i, step |-> "drain"])
  /\ UNCHANGED <<script, connOpen, cursorOpen, fragments, batches, announced,
                 i, submitted, sent, commitCalls, rollbackCalls, rolledBack,
                 results, completedPrinted, fallbackPrinted, topError,
                 pending, durable>>

\* Variant of Commit: the completion line is printed before the commit
\* call returns.
CommitPrintFirst ==
  /\ pc = "commit"
  /\ commitCalls' = Append(commitCalls, i)
  /\ results' = Append(results, Succeeded(i))
  /\ \E ok \in BOOLEAN :
       IF ok
       THEN /\ pc' = "loop"
            /\ durable' = durable \cup pending
            /\ pending' = {}
            /\ UNCHANGED <<exc, raised>>
       ELSE /\ pc' = ExceptTarget("commit")
            /\ exc' = "commit"
            /\ raised' = Append(raised, [index |-> i, step |-> "commit"])
            /\ UNCHANGED <<pending, durable>>
  /\ UNCHANGED <<script, connOpen, cursorOpen, fragments, batches, announced,
                 i, submitted, sent, rollbackCalls, rolledBack,
                 completedPrinted, fallbackPrinted, topError>>

\* conn.commit(); print("Batch i completed")
Commit ==
  /\ pc = "commit"
  /\ commitCalls' = Append(commitCalls, i)
  /\ \E ok \in BOOLEAN :
       IF ok
       THEN /\ results' = Append(results, Succeeded(i))
            /\ pc' = "loop"
            /\ durable' = durable \cup pending
            /\ pending' = {}
            /\ UNCHANGED <<exc, raised>>
       ELSE /\ pc' = ExceptTarget("commit")
            /\ exc' = IF ExceptTarget("commit") = "handler"
                      THEN "commit" ELSE exc
            /\ raised' = Append(raised, [index |-> i, step |-> "commit"])
            /\ UNCHANGED <<pending, durable>>
            /\ UNCHANGED results
  /\ UNCHANGED <<script, connOpen, cursorOpen, fragments, batches, announced,
                 i, submitted, sent, rollbackCalls, rolledBack,
                 completedPrinted, fallbackPrinted, topError>>

\* Variant of Handler: the error is printed and the loop goes on without
\* a rollback.
HandlerNoRollback ==
  /\ pc = "handler"
  /\ results' = Append(results, Failed(i, exc))
  /\ exc' = "none"
  /\ pc' = "loop"
  /\ UNCHANGED <<script, connOpen, cursorOpen, fragments, batches, announced,
                 i, submitted, sent, commitCalls, rollbackCalls, rolledBack,
                 raised, completedPrinted, fallbackPrinted, topError, pending,
                 durable>>

\* except Exception as e: print("Batch i error: ...")
Handler ==
  /\ pc = "handler"
  /\ results' = Append(results, Failed(i, exc))
  /\ exc' = "none"
  /\ pc' = "rollback"
  /\ UNCHANGED <<script, connOpen, cursorOpen, fragments, batches, announced,
                 i, submitted, sent, commitCalls, rollbackCalls, rolledBack,
                 raised, completedPrinted, fallbackPrinted, topError, pending,
                 durable>>

\* conn.rollback() in the handler: it discards the uncommitted work; its
\* exception leaves the loop for the top-level "except Exception".
Rollback ==
  /\ pc = "rollback"
  /\ rollbackCalls' = Append(rollbackCalls, i)
  /\ \E ok \in BOOLEAN :
       IF ok
       THEN /\ rolledBack' = Append(rolledBack, i)
            /\ pending' = {}
            /\ pc' = "loop"
            /\ UNCHANGED <<raised, topError>>
       ELSE /\ pc' = "fallback"
            /\ raised' = Append(raised, [index |-> i, step |-> "rollback"])
            /\ topError' = "rollback"
            /\ UNCHANGED <<rolledBack, pending>>
  /\ UNCHANGED <<script, connOpen, cursorOpen, fragments, batches, announced,
                 i, exc, submitted, sent, commitCalls, results,
                 completedPrinted, fallbackPrinted, durable>>

\* cursor.close()
CloseCursor ==
  /\ pc = "close_cursor"
  /\ \E ok \in BOOLEAN :
       IF ok
       THEN /\ cursorOpen' = FALSE
            /\ pc' = "close_conn"
            /\ UNCHANGED topError
       ELSE /\ UNCHANGED cursorOpen
            /\ pc' = "fallback"
            /\ topError' = "close_cursor"
  /\ UNCHANGED <<script, connOpen, fragments, batches, announced, i, exc,
                 submitted, sent, commitCalls, rollbackCalls, rolledBack,
                 raised, results, completedPrinted, fallbackPrinted, pending,
                 durable>>

\* conn.close()
CloseConn ==
  /\ pc = "close_conn"
  /\ \E ok \in BOOLEAN :
       IF ok
       THEN /\ connOpen' = FALSE
            /\ pending' = {}
            /\ pc' = "banner"
            /\ UNCHANGED topError
       ELSE /\ UNCHANGED <<connOpen, pending>>
            /\ pc' = "fallback"
            /\ topError' = "close_conn"
  /\ UNCHANGED <<script, cursorOpen, fragments, batches, announced, i, exc,
                 submitted, sent, commitCalls, rollbackCalls, rolledBack,
                 raised, results, completedPrinted, fallbackPrinted, durable>>

\* The MIGRATION COMPLETED banner and the restart hint.
Banner ==
  /\ pc = "banner"
  /\ completedPrinted' = TRUE
  /\ pc' = "done"
  /\ UNCHANGED <<script, connOpen, cursorOpen, fragments, batches, announced,
                 i, exc, submitted, sent, commitCalls, rollbackCalls,
                 rolledBack, raised, results, fallbackPrinted, topError,
                 pending, durable>>

\* Variant of Fallback: the top-level handler prints nothing.
FallbackSilent ==
  /\ pc = "fallback"
  /\ pc' = "done"
  /\ UNCHANGED <<script, connOpen, cursorOpen, fragments, batches, announced,
                 i, exc, submitted, sent, commitCalls, rollbackCalls,
                 rolledBack, raised, results, completedPrinted,
                 fallbackPrinted, topError, pending, durable>>

\* except Exception as e (top level): the fallback instructions.
Fallback ==
  /\ pc = "fallback"
  /\ fallbackPrinted' = TRUE
  /\ pc' = "done"
  /\ UNCHANGED <<script, connOpen, cursorOpen, fragments, batches, announced,
                 i, exc, submitted, sent, commitCalls, rollbackCalls,
                 rolledBack, raised, results, completedPrinted, topError,
                 pending, durable>>

Next ==
  \/ Import
  \/ Connect
  \/ ReadAndSplit
  \/ LoopSkip
  \/ LoopEnter
  \/ LoopExit
  \/ Execute
  \/ Drain
  \/ Commit
  \/ Handler
  \/ Rollback
  \/ CloseCursor
  \/ CloseConn
  \/ Banner
  \/ Fallback

Spec == Init /\ [][Next]_vars

----------------------------------------------------------------------------
TypeOK ==
  /\ script \in Scripts
  /\ pc \in {"import", "connect", "read", "loop", "execute", "drain",
             "commit", "handler", "rollback", "close_cursor", "close_conn",
             "banner", "fallback", "done", "crashed"}
  /\ connOpen \in BOOLEAN
  /\ cursorOpen \in BOOLEAN
  /\ announced \in -1..(MaxLen + 1)
  /\ i \in 0..Len(batches)
  /\ exc \in {"none", "execute", "drain", "commit"}
  /\ completedPrinted \in BOOLEAN
  /\ fallbackPrinted \in BOOLEAN
  /\ topError \in {"none", "import", "connect", "read", "rollback",
                   "close_cursor", "close_conn"}
  /\ pending \subseteq 1..Len(batches)
  /\ durable \subseteq 1..Len(batches)

----------------------------------------------------------------------------
\* Vocabulary of the properties.

Range(q) == {q[p] : p \in 1..Len(q)}

Count(q, x) == Cardinality({p \in 1..Len(q) : q[p] = x})

NumSucceeded ==
  Cardinality({p \in 1..Len(results) : results[p].status = "Succeeded"})

NumFailed ==
  Cardinality({p \in 1..Len(results) : results[p].status = "Failed"})

NumRaisedBy(step) ==
  Cardinality({p \in 1..Len(raised) : raised[p].step = step})

RaisedAt(k, step) == [index |-> k, step |-> step] \in Range(raised)

CommitCalled(k) == k \in Range(commitCalls)

RollbackCalled(k) == k \in Range(rollbackCalls)

Committed(k) == Succeeded(k) \in Range(results)

ReportedFailed(k) ==
  \E r \in Range(results) : r.index = k /\ r.status = "Failed"

\* Batch k is between its execute call and the end of its try statement.
InTry(k) ==
  k = i /\ pc \in {"execute", "drain", "commit", "handler", "rollback"}

\* Batch k was submitted and the program has left its try statement.
Settled(k) == k \in Range(submitted) /\ ~InTry(k)

RunEnded == pc = "done"

----------------------------------------------------------------------------
\* C1 (as claimed): in a run that has ended, a failed batch k leaves every
\* batch k+1..N attempted, the run Completed and exactly N results recorded.
C1_FailureIsolation ==
  RunEnded =>
    \A k \in 1..Len(batches) :
      ReportedFailed(k) =>
        /\ \A j \in (k + 1)..Len(batches) : j \in Range(submitted)
        /\ completedPrinted
        /\ Len(results) = Len(batches)

----------------------------------------------------------------------------
\* C2 (as claimed): at the end of a completed run the commit calls number
\* the Succeeded results and the rollback calls number the Failed results.
C2_CallsMatchResults ==
  completedPrinted =>
    /\ Len(commitCalls) = NumSucceeded
    /\ Len(rollbackCalls) = NumFailed

\* Execution raised for exactly the 2nd of the 3 batches run, nothing else.
SecondOfThreeFails ==
  /\ Len(submitted) = 3
  /\ raised = <<[index |-> submitted[2], step |-> "execute"]>>

\* C2 (amended): at the end of a completed run the commit calls number the
\* Succeeded results plus the batches whose commit call itself raised, the
\* rollback calls number the Failed results, and when execution fails for
\* exactly the 2nd of 3 batches run the results are Succeeded, Failed,
\* Succeeded with two commit calls and one rollback call.
C2_CallsMatchResultsAmended ==
  completedPrinted =>
    /\ Len(commitCalls) = NumSucceeded + NumRaisedBy("commit")
    /\ Len(rollbackCalls) = NumFailed
    /\ SecondOfThreeFails =>
         /\ results = <<Succeeded(submitted[1]),
                        Failed(submitted[2], "execute"),
                        Succeeded(submitted[3])>>
         /\ Len(commitCalls) = 2
         /\ Len(rollbackCalls) = 1

\* A completed run of three batches in which only the second execute raised.
C2_Witness ==
  /\ completedPrinted
  /\ SecondOfThreeFails
  /\ Len(commitCalls) = 2
  /\ Len(rollbackCalls) = 1

----------------------------------------------------------------------------
\* C3 (as claimed): for every batch run, commit is called iff execute and
\* drain raised nothing, rollback iff one of them did, and never both.
C3_CommitXorRollback ==
  \A k \in 1..Len(batches) :
    Settled(k) =>
      /\ CommitCalled(k) <=> ~(RaisedAt(k, "execute") \/ RaisedAt(k, "drain"))
      /\ RollbackCalled(k) <=> (RaisedAt(k, "execute") \/ RaisedAt(k, "drain"))
      /\ ~(CommitCalled(k) /\ RollbackCalled(k))

\* C3 (amended): every batch run ends in exactly one of Committed (its commit
\* returned) or RolledBack (rollback was called); commit is called iff the
\* batch was submitted and execute and drain raised nothing; rollback is
\* called iff execute, drain or the commit call raised; both are called for
\* the same batch exactly when its commit call raised; each at most once.
C3_CommitXorRollbackAmended ==
  LET S == Range(submitted)
      CC == Range(commitCalls)
      RC == Range(rollbackCalls)
      R == Range(raised)
      Res == Range(results)
  IN \A k \in 1..Len(batches) :
       ~InTry(k) =>
         LET re == [index |-> k, step |-> "execute"] \in R
             rd == [index |-> k, step |-> "drain"] \in R
             rc == [index |-> k, step |-> "commit"] \in R
         IN /\ k \in CC <=> (k \in S /\ ~(re \/ rd))
            /\ k \in RC <=> (re \/ rd \/ rc)
            /\ (k \in CC /\ k \in RC) <=> rc
            /\ k \in S => (Succeeded(k) \in Res <=> k \notin RC)
            /\ Count(commitCalls, k) <= 1
            /\ Count(rollbackCalls, k) <= 1

\* A batch whose commit call raised has left its try statement with both
\* commit and rollback called; another one was committed only.
C3_Witness ==
  \E k, j \in 1..Len(batches) :
    /\ Settled(k) /\ RaisedAt(k, "commit")
    /\ CommitCalled(k) /\ RollbackCalled(k)
    /\ Settled(j) /\ Committed(j) /\ ~RollbackCalled(j)

----------------------------------------------------------------------------
\* C4 (as claimed): an exception of the drain never makes the batch Failed
\* or rolled back; a batch whose execute returned is committed and recorded
\* Succeeded (its commit call permitting) whatever the drain does.
C4_DrainBestEffort ==
  \A k \in 1..Len(batches) :
    Settled(k) =>
      /\ RaisedAt(k, "drain") => ~ReportedFailed(k) /\ ~RollbackCalled(k)
      /\ (~RaisedAt(k, "execute") /\ ~RaisedAt(k, "commit")) =>
           CommitCalled(k) /\ Committed(k)

\* C4 (amended): an exception raised while draining is handled like one of
\* execute: the batch is recorded Failed with that error and rolled back
\* and is never committed; a batch whose execute returned is committed and
\* recorded Succeeded exactly when neither the drain nor the commit raised.
C4_DrainFailureFailsBatch ==
  LET R == Range(raised)
      Res == Range(results)
  IN \A k \in Range(submitted) :
       ~InTry(k) =>
         LET rd == [index |-> k, step |-> "drain"] \in R
             rc == [index |-> k, step |-> "commit"] \in R
         IN /\ rd => /\ Failed(k, "drain") \in Res
                     /\ k \in Range(rollbackCalls)
                     /\ k \notin Range(commitCalls)
                     /\ Succeeded(k) \notin Res
            /\ [index |-> k, step |-> "execute"] \notin R =>
                 (Succeeded(k) \in Res <=> ~(rd \/ rc))

\* A batch whose drain raised was recorded Failed and rolled back, and the
\* next batch has been submitted.
C4_Witness ==
  \E k \in 1..Len(batches) :
    /\ Settled(k) /\ RaisedAt(k, "drain")
    /\ Failed(k, "drain") \in Range(results)
    /\ k \in Range(rolledBack)
    /\ \E j \in Range(submitted) : j > k

----------------------------------------------------------------------------
\* C5 (as claimed): when the run has ended the connection is closed.
C5_ConnectionReleased == RunEnded => ~connOpen

----------------------------------------------------------------------------
\* C6 (as claimed): in a run that has ended every batch the loop does not
\* discard as a comment has been submitted exactly once.
C6_ExactlyOnce ==
  (RunEnded /\ announced >= 0) =>
    \A k \in 1..Len(batches) :
      ~SkipBatch(batches[k]) => Count(submitted, k) = 1

----------------------------------------------------------------------------
\* Batches submitted whose commit has not returned and whose rollback has
\* not returned.
InFlight ==
  {k \in Range(submitted) : ~Committed(k) /\ k \notin Range(rolledBack)}

\* C7: batches are submitted in increasing index order, every batch
\* submitted before the latest one has been committed or rolled back, and
\* at most one batch is in flight.
C7_OneAtATimeInOrder ==
  LET Finished == {r.index : r \in {x \in Range(results) :
                                      x.status = "Succeeded"}}
                    \cup Range(rolledBack)
  IN /\ \A p \in 1..(Len(submitted) - 1) :
          /\ submitted[p] < submitted[p + 1]
          /\ submitted[p] \in Finished
     /\ Cardinality(Range(submitted) \ Finished) <= 1

\* A second batch is in flight after the first one failed and was rolled
\* back.
C7_Witness ==
  /\ Len(submitted) = 2
  /\ pc = "drain"
  /\ InFlight = {submitted[2]}
  /\ ReportedFailed(submitted[1])
  /\ submitted[1] \in Range(rolledBack)

----------------------------------------------------------------------------
\* The token occupies a whole line of s at position p.
StandaloneAt(s, p) ==
  /\ p + Len(Delimiter) - 1 <= Len(s)
  /\ SubSeq(s, p, p + Len(Delimiter) - 1) = Delimiter
  /\ p = 1 \/ s[p - 1] = "\n"
  /\ p + Len(Delimiter) - 1 = Len(s) \/ s[p + Len(Delimiter)] = "\n"

NumStandalone(s) == Cardinality({p \in 1..Len(s) : StandaloneAt(s, p)})

\* C8 (as claimed): only a standalone token starts a new batch, so a script
\* yields at most one batch more than it has standalone token lines.
C8_SplitOnlyAtStandalone ==
  announced >= 0 => Len(batches) <= 1 + NumStandalone(script)

----------------------------------------------------------------------------
\* C9 (as claimed): in a completed run the batches executed and the batches
\* reported are numbered 1..N without gaps, N being the announced number.
C9_NumberedWithoutGaps ==
  completedPrinted =>
    /\ Len(submitted) = announced
    /\ \A p \in 1..Len(submitted) : submitted[p] = p
    /\ Len(results) = announced
    /\ \A p \in 1..Len(results) : results[p].index = p

----------------------------------------------------------------------------
\* C10 (as claimed): the batch run and reported under index n is the n-th
\* delimiter-separated fragment of the script.  Stated for the scripts in
\* which every occurrence of the token is standalone, where the fragments
\* are the same whichever way the delimiter is read.
C10_IndexIsFragmentPosition ==
  (announced >= 0 /\ Len(fragments) = 1 + NumStandalone(script)) =>
    /\ \A p \in 1..Len(submitted) :
         /\ submitted[p] <= Len(fragments)
         /\ sent[p] = Strip(fragments[submitted[p]])
    /\ \A r \in Range(results) : r.index \in Range(submitted)

\* Positions of the fragments that are not empty after trimming.
NonEmptyPositions(F) == {q \in 1..Len(F) : NonEmptyStripped(F[q])}

\* C10 (amended): the batch run and reported under index n is the n-th, in
\* source order, of the fragments between the occurrences of the token that
\* are not empty after trimming, whatever happened to the batches before it.
C10_IndexIsNonEmptyFragmentPosition ==
  LET F == fragments
      NE == NonEmptyPositions(F)
  IN /\ \A p \in 1..Len(submitted) :
          \E j \in NE :
            /\ Cardinality({q \in NE : q <= j}) = submitted[p]
            /\ sent[p] = Strip(F[j])
     /\ \A r \in Range(results) : r.index \in Range(submitted)

\* Batch 2 is run after batch 1 failed, in a script whose second fragment
\* is empty.
C10_Witness ==
  /\ Len(fragments) >= 3
  /\ ~NonEmptyStripped(fragments[2])
  /\ ReportedFailed(1)
  /\ 2 \in Range(submitted)

----------------------------------------------------------------------------
\* The token occurs somewhere in s.
HasDelimiter(s) ==
  \E p \in 1..Len(s) :
    /\ p + Len(Delimiter) - 1 <= Len(s)
    /\ SubSeq(s, p, p + Len(Delimiter) - 1) = Delimiter

----------------------------------------------------------------------------
\* s is made of tokens and whitespace only.
RECURSIVE OnlyDelimitersAndSpace(_)
OnlyDelimitersAndSpace(s) ==
  \/ s = <<>>
  \/ /\ s # <<>>
     /\ Head(s) \in Whitespace
     /\ OnlyDelimitersAndSpace(Tail(s))
  \/ /\ StartsWith(s, Delimiter)
     /\ OnlyDelimitersAndSpace(SubSeq(s, Len(Delimiter) + 1, Len(s)))

\* The example "A;\nGO\nB;\nGO\n" with each statement shortened to one
\* character.
ExampleScript == <<"O", "\n", "G", "O", "\n", "-", "\n", "G", "O", "\n">>

\* C12: no batch is empty or has leading or trailing whitespace; a script of
\* tokens and whitespace only gives no batch; there are as many batches as
\* fragments that are not blank, so doubled or trailing tokens add none;
\* nothing empty is ever executed or reported; and the split the program is
\* about to make gives exactly the two statements for the example text.
C12_NoEmptyOrUntrimmedBatch ==
  /\ pc = "read" => Batches(ExampleScript) = << <<"O">>, <<"-">> >>
  /\ announced >= 0 =>
    /\ \A p \in 1..Len(batches) :
         /\ batches[p] # <<>>
         /\ batches[p][1] \notin Whitespace
         /\ batches[p][Len(batches[p])] \notin Whitespace
    /\ OnlyDelimitersAndSpace(script) => batches = <<>>
    /\ Len(batches) = Cardinality(NonEmptyPositions(fragments))
    /\ \A p \in 1..Len(sent) : sent[p] # <<>>
    /\ \A r \in Range(results) : r.index \in Range(submitted)

\* A completed run of a script with a doubled or trailing token and
\* whitespace to trim: two batches, two results.
C12_Witness ==
  /\ completedPrinted
  /\ Len(fragments) >= 3
  /\ \E q \in 1..Len(fragments) : ~NonEmptyStripped(fragments[q])
  /\ \E q \in 1..Len(fragments) :
       NonEmptyStripped(fragments[q]) /\ Strip(fragments[q]) # fragments[q]
  /\ Len(batches) = 2
  /\ Len(results) = 2

----------------------------------------------------------------------------
\* The program has stopped, normally or by an uncaught exception.
Terminated == pc \in {"done", "crashed"}

\* C13 (as claimed): when the driver cannot be imported the run has no
\* batch result, never connects and prints the fallback instructions.
C13_DriverMissingFallback ==
  (Terminated /\ topError = "import") =>
    /\ results = <<>>
    /\ ~connOpen
    /\ fallbackPrinted

----------------------------------------------------------------------------
\* C14: when the connect or the read of the script file fails, nothing is
\* executed, committed, rolled back or reported, the completed banner is
\* not printed, and the run ends with the fallback instructions printed.
C14_NoStartNoBatch ==
  topError \in {"connect", "read"} =>
    /\ submitted = <<>>
    /\ commitCalls = <<>>
    /\ rollbackCalls = <<>>
    /\ results = <<>>
    /\ durable = {}
    /\ ~completedPrinted
    /\ pc \in {"fallback", "done"}
    /\ RunEnded => fallbackPrinted

\* A run that ended after the read of the script file failed, and one that
\* ended after the connect failed, look like this.
C14_Witness ==
  /\ RunEnded
  /\ fallbackPrinted
  /\ results = <<>>
  /\ \/ topError = "read" /\ connOpen
     \/ topError = "connect" /\ ~connOpen

----------------------------------------------------------------------------
\* C15 (as claimed): a run that got to the loop and has ended (the closing
\* of the cursor and the connection not failing) has printed the completed
\* banner and has attempted every batch the loop does not discard.
C15_RunningReachesCompleted ==
  (RunEnded /\ announced >= 0
     /\ topError \notin {"close_cursor", "close_conn"}) =>
    /\ completedPrinted
    /\ \A k \in 1..Len(batches) :
         ~SkipBatch(batches[k]) => k \in Range(submitted)

----------------------------------------------------------------------------
\* C16 (as claimed): the fallback text is printed only when no batch was
\* submitted, the completed banner only when every batch the loop does not
\* discard was attempted, and never both.
C16_OutcomesExclusive ==
  /\ fallbackPrinted => submitted = <<>>
  /\ completedPrinted =>
       \A k \in 1..Len(batches) :
         ~SkipBatch(batches[k]) => k \in Range(submitted)
  /\ ~(fallbackPrinted /\ completedPrinted)

----------------------------------------------------------------------------
\* C17: no uncommitted work is left when a batch starts, a rollback
\* discards the work of its own batch only, the committed work is that of
\* the batches reported completed, and it only grows.
C17_CommittedWorkKept ==
  /\ [](pc = "execute" => pending = {})
  /\ [](pc \in {"drain", "commit", "handler", "rollback"} => pending = {i})
  /\ [](durable = {r.index : r \in {x \in Range(results) :
                                      x.status = "Succeeded"}})
  /\ [][durable \subseteq durable']_vars

\* A third batch starts after the first was committed and the second failed
\* and was rolled back: the work of the first is still committed.
C17_Witness ==
  /\ pc = "execute"
  /\ Len(submitted) = 2
  /\ durable = {submitted[1]}
  /\ submitted[2] \in Range(rolledBack)
  /\ pending = {}

----------------------------------------------------------------------------
\* C18 (as claimed): once the next batch or the end of the run is reached,
\* a batch that was attempted has exactly one reported outcome; reported
\* completed, its commit has returned; reported with an error, its work is
\* not committed and has been rolled back.
C18_ReportMatchesTransaction ==
  \A k \in Range(submitted) :
    (RunEnded \/ k < i) =>
      /\ Cardinality({p \in 1..Len(results) : results[p].index = k}) = 1
      /\ Committed(k) => k \in durable
      /\ ReportedFailed(k) =>
           /\ k \notin durable
           /\ k \notin pending
           /\ k \in Range(rolledBack)

====
